---- MODULE Spec2Model ----
\* Model of src/uca/UserCollectableAttribute.js: the attribute construction /
\* commitment engine (type resolution, validation, the three construction
\* modes, the URN-pipe codec, disclosure and flattening).
\*
\* JavaScript strings are TLA+ strings (Len, SubSeq and \o act on them), so the
\* codec is modelled character by character.  JavaScript values are records of
\* one shape, tagged with their runtime type.
EXTENDS Integers, Sequences, FiniteSets, TLC

VARIABLES definitions, a, prev, b, out

vars == <<definitions, a, prev, b, out>>

\* ---------------------------------------------------------------------------
\* Strings
\* ---------------------------------------------------------------------------

\* the characters the model uses, in ascending code-unit order
CharOrder == "-.0123456789:ABCDEFGHIJKLMNOPQRSTUVWXYZ[]_abcdefghijklmnopqrstuvwxyz|"

CharAt(s, i) == IF i >= 1 /\ i <= Len(s) THEN SubSeq(s, i, i) ELSE ""

RECURSIVE IndexIn(_, _, _)
IndexIn(c, s, i) ==
  IF i > Len(s) THEN 0
  ELSE IF CharAt(s, i) = c THEN i ELSE IndexIn(c, s, i + 1)

CharCodes == [i \in 1..Len(CharOrder) |-> CharAt(CharOrder, i)]

CharCode(c) == CHOOSE i \in 1..Len(CharOrder) : CharCodes[i] = c

\* the regular expression class \w
WordChars == "0123456789ABCDEFGHIJKLMNOPQRSTUVWXYZ_abcdefghijklmnopqrstuvwxyz"

WordCharSet == {CharAt(WordChars, i) : i \in 1..Len(WordChars)}

IsWordChar(c) == c \in WordCharSet

\* JavaScript's < on strings: lexicographic on code units
RECURSIVE StrLess(_, _)
StrLess(s, t) ==
  IF Len(t) = 0 THEN FALSE
  ELSE IF Len(s) = 0 THEN TRUE
  ELSE IF CharAt(s, 1) = CharAt(t, 1)
       THEN StrLess(SubSeq(s, 2, Len(s)), SubSeq(t, 2, Len(t)))
       ELSE CharCode(CharAt(s, 1)) < CharCode(CharAt(t, 1))

\* String.prototype.lastIndexOf, 1-based, 0 when absent
RECURSIVE LastIndexOf(_, _, _)
LastIndexOf(s, c, i) ==
  IF i = 0 THEN 0
  ELSE IF CharAt(s, i) = c THEN i ELSE LastIndexOf(s, c, i - 1)

Includes(s, c) == IndexIn(c, s, 1) # 0

EndsWith(s, suffix) ==
  /\ Len(suffix) <= Len(s)
  /\ SubSeq(s, Len(s) - Len(suffix) + 1, Len(s)) = suffix

\* _.split(s, sep) for a one-character separator
RECURSIVE SplitFrom(_, _, _, _)
SplitFrom(s, sep, start, i) ==
  IF i > Len(s) THEN <<SubSeq(s, start, Len(s))>>
  ELSE IF CharAt(s, i) = sep
       THEN <<SubSeq(s, start, i - 1)>> \o SplitFrom(s, sep, i + 1, i + 1)
       ELSE SplitFrom(s, sep, start, i + 1)

Split(s, sep) == SplitFrom(s, sep, 1, 1)

\* Number.prototype.toString for integers
Digits == "0123456789"

RECURSIVE NatToString(_)
NatToString(n) ==
  IF n < 10 THEN CharAt(Digits, n + 1)
  ELSE NatToString(n \div 10) \o CharAt(Digits, (n % 10) + 1)

NumberToString(n) == IF n < 0 THEN "-" \o NatToString(-n) ELSE NatToString(n)

\* _.padStart(s, width, '0')
RECURSIVE PadStart(_, _)
PadStart(s, width) == IF Len(s) >= width THEN s ELSE PadStart("0" \o s, width)

\* _.sortBy on a sequence of strings (insertion sort, ascending)
RECURSIVE InsertSorted(_, _)
InsertSorted(k, sorted) ==
  IF sorted = <<>> THEN <<k>>
  ELSE IF StrLess(Head(sorted), k)
       THEN <<Head(sorted)>> \o InsertSorted(k, Tail(sorted))
       ELSE <<k>> \o sorted

RECURSIVE SortBy(_)
SortBy(keys) ==
  IF keys = <<>> THEN <<>> ELSE InsertSorted(Head(keys), SortBy(Tail(keys)))

\* ---------------------------------------------------------------------------
\* JavaScript values
\* ---------------------------------------------------------------------------

\* t is the runtime type; s, n, b carry a primitive; m carries the entries of
\* an object in insertion order, each entry [k |-> key, v |-> value]
Str(s) == [t |-> "String",  s |-> s,  n |-> 0, b |-> FALSE, m |-> <<>>]
Num(n) == [t |-> "Number",  s |-> "", n |-> n, b |-> FALSE, m |-> <<>>]
Bool(x) == [t |-> "Boolean", s |-> "", n |-> 0, b |-> x,     m |-> <<>>]
Obj(m) == [t |-> "Object",  s |-> "", n |-> 0, b |-> FALSE, m |-> m]
\* an object { attestableValue: s }
AttestableValue(s) == [t |-> "AttestableValue", s |-> s, n |-> 0, b |-> FALSE, m |-> <<>>]
Undefined == [t |-> "Undefined", s |-> "", n |-> 0, b |-> FALSE, m |-> <<>>]

\* truthiness of a value
Truthy(v) ==
  CASE v.t = "String"  -> v.s # ""
    [] v.t = "Number"  -> v.n # 0
    [] v.t = "Boolean" -> v.b
    [] v.t = "Undefined" -> FALSE
    [] OTHER -> TRUE

\* value[key]
Keys(m) == [i \in 1..Len(m) |-> m[i].k]

HasKey(m, key) == \E i \in 1..Len(m) : m[i].k = key

Lookup(m, key) == m[CHOOSE i \in 1..Len(m) : m[i].k = key].v

GetProp(v, key) ==
  IF v.t = "Object" /\ HasKey(v.m, key) THEN Lookup(v.m, key) ELSE Undefined

\* ---------------------------------------------------------------------------
\* Definition registry
\* ---------------------------------------------------------------------------

\* an optional field is <<>> when absent and <<x>> when present
Absent == <<>>

Some(x) == <<x>>

isNil(f) == f = Absent

\* the `type` field of a definition: a string (an identifier or a primitive
\* type name) or an inline object schema
TypeName(name) == [kind |-> "name", name |-> name, properties |-> <<>>, required |-> <<>>]

Schema(properties, required) ==
  [kind |-> "schema", name |-> "", properties |-> properties, required |-> required]

\* one entry of `properties`; version "" is an omitted version
Property(name, type, version) == [name |-> name, type |-> type, version |-> version]

NoConstraints ==
  [minimumLength |-> Absent, maximumLength |-> Absent,
   minimum |-> Absent, maximum |-> Absent,
   exclusiveMinimum |-> Absent, exclusiveMaximum |-> Absent]

Definition(identifier, version, type, constraints, credentialItem, attestable) ==
  [identifier |-> identifier, version |-> version, type |-> type,
   minimumLength |-> constraints.minimumLength,
   maximumLength |-> constraints.maximumLength,
   minimum |-> constraints.minimum, maximum |-> constraints.maximum,
   exclusiveMinimum |-> constraints.exclusiveMinimum,
   exclusiveMaximum |-> constraints.exclusiveMaximum,
   credentialItem |-> credentialItem, attestable |-> attestable]

\* The registry the model runs on: the two definitions of the specification's
\* scenarios (ns:Person:age, ns:Person:name) with their leaves, a definition
\* whose type is a reference, a one-property composite, a nested composite
\* (one of its properties refers to an identifier that is not registered) and
\* a composite that requires nothing.
AgeConstraints == [NoConstraints EXCEPT !.minimum = Some(0), !.maximum = Some(150)]

RegistryWith(ageConstraints, firstConstraints) ==
  << Definition("ns:Person:age", "1", TypeName("Number"), ageConstraints, TRUE, FALSE),
     Definition("ns:Person:adult", "1", TypeName("Boolean"), NoConstraints, FALSE, TRUE),
     Definition("ns:Person:first", "1", TypeName("String"), firstConstraints, FALSE, TRUE),
     Definition("ns:Person:last", "1", TypeName("String"), NoConstraints, FALSE, FALSE),
     Definition("ns:Person:name", "1",
                Schema(<<Property("first", "ns:Person:first", ""),
                         Property("last", "ns:Person:last", "1")>>, <<"first">>),
                NoConstraints, TRUE, FALSE),
     Definition("ns:Person:years", "1", TypeName("ns:Person:age"), NoConstraints, FALSE, FALSE),
     Definition("ns:Person:tag", "1",
                Schema(<<Property("adult", "ns:Person:adult", "")>>, <<"adult">>),
                NoConstraints, FALSE, FALSE),
     Definition("ns:Person:profile", "1",
                Schema(<<Property("name", "ns:Person:name", ""),
                         Property("tag", "ns:Person:tag", ""),
                         Property("age", "ns:Person:age", ""),
                         Property("nick", "ns:Person:nick", "")>>, <<"age">>),
                NoConstraints, FALSE, TRUE),
     Definition("ns:Person:note", "1",
                Schema(<<Property("last", "ns:Person:last", "")>>, <<>>),
                NoConstraints, FALSE, FALSE) >>

Registry == RegistryWith(AgeConstraints, NoConstraints)

\* const validIdentifiers = _.map(definitions, d => d.identifier)
validIdentifiers(defs) == {defs[i].identifier : i \in 1..Len(defs)}

\* _.find(definitions, { identifier }): index of the first match, 0 if none
RECURSIVE FindFrom(_, _, _, _)
FindFrom(defs, identifier, version, i) ==
  IF i > Len(defs) THEN 0
  ELSE IF defs[i].identifier = identifier /\ (version = "" \/ defs[i].version = version)
       THEN i ELSE FindFrom(defs, identifier, version, i + 1)

FindDefinition(defs, identifier, version) == FindFrom(defs, identifier, version, 1)

\* ---------------------------------------------------------------------------
\* Type resolver
\* ---------------------------------------------------------------------------

RECURSIVE getTypeName(_, _)
getTypeName(defs, definition) ==
  IF definition.type.kind = "name"
  THEN IF definition.type.name \in validIdentifiers(defs)
       THEN getTypeName(defs, defs[FindDefinition(defs, definition.type.name, "")])
       ELSE definition.type.name
  ELSE "Object"

RECURSIVE resolveType(_, _)
resolveType(defs, definition) ==
  LET typeName == getTypeName(defs, definition) IN
  IF typeName # "Object" THEN TypeName(typeName)
  ELSE IF definition.type.kind # "name" THEN definition.type
  ELSE resolveType(defs, defs[FindDefinition(defs, definition.type.name, "")])

\* ---------------------------------------------------------------------------
\* Value validator
\* ---------------------------------------------------------------------------

isValueOfType(value, type) ==
  CASE type = "String"  -> value.t = "String"
    [] type = "Number"  -> value.t = "Number"
    [] type = "Boolean" -> value.t = "Boolean"
    [] OTHER -> FALSE

\* a number field read in a condition: absent and 0 are falsy
TruthyNumber(f) == ~isNil(f) /\ f[1] # 0

\* a boolean field read in a condition
TruthyFlag(f) == ~isNil(f) /\ f[1]

\* x <= f, false when f is undefined
LessEqField(x, f) == ~isNil(f) /\ x <= f[1]

GreaterEqField(x, f) == ~isNil(f) /\ x >= f[1]

\* the length tests of case 'String'; no definition of the registry declares a
\* pattern, so the pattern test is its `true` arm
isValidString(value, definition) ==
  /\ (IF TruthyNumber(definition.minimumLength)
      THEN Len(value.s) >= definition.minimumLength[1] ELSE TRUE)
  /\ (IF TruthyNumber(definition.maximumLength)
      THEN LessEqField(Len(value.s), definition.minimumLength) ELSE TRUE)

\* the numeric check with the exclusive flags ignored
isValidNumberInclusive(value, definition) ==
  /\ (isNil(definition.minimum) \/ value.n >= definition.minimum[1])
  /\ (isNil(definition.maximum) \/ value.n <= definition.maximum[1])

isValidNumber(value, definition) ==
  /\ \/ (IF ~isNil(definition.minimum) /\ TruthyFlag(definition.exclusiveMinimum)
         THEN value.n > definition.minimum[1]
         ELSE GreaterEqField(value.n, definition.minimum))
     \/ isNil(definition.minimum)
  /\ \/ (IF ~isNil(definition.maximum) /\ TruthyFlag(definition.exclusiveMaximum)
         THEN value.n < definition.maximum[1]
         ELSE LessEqField(value.n, definition.maximum))
     \/ isNil(definition.maximum)

isValid(value, type, definition) ==
  CASE type = "String"  -> isValidString(value, definition)
    [] type = "Number"  -> isValidNumber(value, definition)
    [] type = "Boolean" -> value.t = "Boolean"
    [] OTHER -> FALSE

\* ---------------------------------------------------------------------------
\* Commitment codec: parsing
\* ---------------------------------------------------------------------------

isAttestableValue(value) == value.t = "AttestableValue" /\ value.s # ""

\* end of the longest run of \w characters of s that starts at position i
RECURSIVE WordRunEnd(_, _)
WordRunEnd(s, i) ==
  IF i <= Len(s) /\ IsWordChar(CharAt(s, i)) THEN WordRunEnd(s, i + 1) ELSE i

\* /^urn:(\w*):(\w*):([\w|\W]*)/.exec(stringValue): <<>> when there is no
\* match, else one component
attestableValueRegex(stringValue) ==
  IF Len(stringValue) < 4 \/ SubSeq(stringValue, 1, 4) # "urn:" THEN <<>>
  ELSE LET p == WordRunEnd(stringValue, 5) IN
       IF CharAt(stringValue, p) # ":" THEN <<>>
       ELSE LET q == WordRunEnd(stringValue, p + 1) IN
            IF CharAt(stringValue, q) # ":" THEN <<>>
            ELSE << [propertyName |-> SubSeq(stringValue, 5, p - 1),
                     salt |-> SubSeq(stringValue, p + 1, q - 1),
                     value |-> SubSeq(stringValue, q + 1, Len(stringValue)),
                     stringValue |-> stringValue] >>

RECURSIVE MatchEach(_)
MatchEach(splitPipes) ==
  IF splitPipes = <<>> THEN <<>>
  ELSE attestableValueRegex(Head(splitPipes)) \o MatchEach(Tail(splitPipes))

\* the result of parseAttestableValue: thrown, or the components
parseAttestableValue(value) ==
  LET splitPipes == Split(value.s, "|")
      values == MatchEach(splitPipes)
  IN IF Len(splitPipes) # Len(values) /\ Len(splitPipes) # Len(values) + 1
     THEN [thrown |-> TRUE, values |-> <<>>]
     ELSE [thrown |-> FALSE, values |-> values]

\* ---------------------------------------------------------------------------
\* Attribute instances and serialization
\* ---------------------------------------------------------------------------

\* this.timestamp = null
Null == <<>>

\* an unassigned field such as this.salt of a composite, as a template
\* literal renders it
UndefinedText == "undefined"

Instance(identifier, version, type, value, salt, ts, id) ==
  [identifier |-> identifier, version |-> version, type |-> type,
   value |-> value, salt |-> salt, timestamp |-> ts, id |-> id]

NoInstance == Instance("", "", "", Undefined, UndefinedText, Null, "")

\* `${value}` and value.toString()
TemplateString(v) ==
  CASE v.t = "String"  -> v.s
    [] v.t = "Number"  -> NumberToString(v.n)
    [] v.t = "Boolean" -> (IF v.b THEN "true" ELSE "false")
    [] v.t = "Undefined" -> UndefinedText
    [] OTHER -> "[object Object]"

propertyNameOf(identifier) ==
  LET startIndexForPropertyName ==
        IF Includes(identifier, ".") THEN LastIndexOf(identifier, ".", Len(identifier))
        ELSE LastIndexOf(identifier, ":", Len(identifier))
  IN SubSeq(identifier, startIndexForPropertyName + 1, Len(identifier))

\* the keys _.keys(this.value) enumerates
KeysOfValue(v) ==
  CASE v.t = "Object" -> Keys(v.m)
    [] v.t = "String" -> [i \in 1..Len(v.s) |-> NumberToString(i - 1)]
    [] OTHER -> <<>>

\* getAttestableValue: [thrown, s]; thrown is the TypeError of calling
\* getAttestableValue on a member that is not an instance
RECURSIVE getAttestableValue(_)
RECURSIVE ReduceChildren(_, _, _)
ReduceChildren(inst, keys, acc) ==
  IF keys = <<>> THEN [thrown |-> FALSE, s |-> acc]
  ELSE IF inst.value.t # "Object" THEN [thrown |-> TRUE, s |-> ""]
  ELSE LET child == getAttestableValue(Lookup(inst.value.m, Head(keys))) IN
       IF child.thrown THEN child
       ELSE ReduceChildren(inst, Tail(keys), acc \o child.s \o "|")

\* the keys in insertion order, as a serializer without the sort visits them
OrderedKeysUnsorted(inst) == KeysOfValue(inst.value)

\* _.sortBy(_.keys(this.value))
OrderedKeys(inst) == SortBy(KeysOfValue(inst.value))

getAttestableValue(inst) ==
  LET propertyName == propertyNameOf(inst.identifier)
      prefix == "urn:" \o propertyName \o ":" \o inst.salt \o ":"
  IN CASE inst.type = "String"  -> [thrown |-> FALSE, s |-> prefix \o TemplateString(inst.value)]
       [] inst.type = "Number"  ->
            [thrown |-> FALSE, s |-> prefix \o PadStart(TemplateString(inst.value), 8)]
       [] inst.type = "Boolean" -> [thrown |-> FALSE, s |-> prefix \o TemplateString(inst.value)]
       [] OTHER -> ReduceChildren(inst, OrderedKeys(inst), "")

\* sjcl.codec.hex.fromBits(sjcl.hash.sha256.hash(s)): a collision-free digest
sha256Hex(s) == "sha256[" \o s \o "]"

\* ---------------------------------------------------------------------------
\* Construction
\* ---------------------------------------------------------------------------

\* The outcome of `new UCABaseConstructor(...)`: the registry as the call
\* leaves it, the unread part of the random source, and either the instance
\* (status "ok") or the kind of the error thrown.  The source throws plain
\* Error objects; the kinds name them by their message:
\*   UnknownIdentifier    "... is not defined"
\*   InvalidValue         "... is not valid for ..."
\*   MissingRequiredField "Missing required fields to ..."
\*   MalformedCommitment  "Invalid attestableValue"
\*   TypeError            a property read or call on undefined
Thrown(defs, rnd, error) ==
  [defs |-> defs, rnd |-> rnd, status |-> error, inst |-> NoInstance]

Returned(defs, rnd, inst) ==
  [defs |-> defs, rnd |-> rnd, status |-> "ok", inst |-> inst]

\* const hash = ...; this.id = `${this.version}:${this.identifier}:${hash}`
WithId(defs, rnd, inst) ==
  LET av == getAttestableValue(inst) IN
  IF av.thrown THEN Thrown(defs, rnd, "TypeError")
  ELSE Returned(defs, rnd,
         [inst EXCEPT !.id = inst.version \o ":" \o inst.identifier \o ":" \o sha256Hex(av.s)])

\* ucaValue[key] = uca
Assign(m, key, uca) ==
  IF HasKey(m, key)
  THEN [i \in 1..Len(m) |-> IF m[i].k = key THEN [k |-> key, v |-> uca] ELSE m[i]]
  ELSE Append(m, [k |-> key, v |-> uca])

\* properties.find(property => property.type.endsWith(propertyName))
RECURSIVE FindPropertyBySuffix(_, _, _)
FindPropertyBySuffix(properties, propertyName, i) ==
  IF i > Len(properties) THEN 0
  ELSE IF EndsWith(properties[i].type, propertyName) THEN i
  ELSE FindPropertyBySuffix(properties, propertyName, i + 1)

\* _.find(definition.type.properties, { name: k })
RECURSIVE FindPropertyByName(_, _, _)
FindPropertyByName(properties, name, i) ==
  IF i > Len(properties) THEN 0
  ELSE IF properties[i].name = name THEN i
  ELSE FindPropertyByName(properties, name, i + 1)

\* the (value, key) pairs _.map(value, (v, k) => ...) visits
Entries(value) ==
  CASE value.t = "Object" -> value.m
    [] value.t = "String" ->
         [i \in 1..Len(value.s) |-> [k |-> NumberToString(i - 1), v |-> Str(CharAt(value.s, i))]]
    [] value.t = "AttestableValue" -> <<[k |-> "attestableValue", v |-> Str(value.s)]>>
    [] OTHER -> <<>>

\* _.reduce(definition.type.required, (has, required) => value[required] && has, true)
hasRequireds(value, required) ==
  \A i \in 1..Len(required) : Truthy(GetProp(value, required[i]))

RECURSIVE UCABaseConstructor(_, _, _, _, _, _)
RECURSIVE FromParsed(_, _, _, _, _, _, _)
RECURSIVE FromEntries(_, _, _, _, _, _, _)

\* the loop over parsedAttestableValue of the reconstruction branch; the
\* result's inst.value is the ucaValue built
FromParsed(defs, rnd, now, type, parsed, i, ucaValue) ==
  IF i > Len(parsed) THEN Returned(defs, rnd, [NoInstance EXCEPT !.value = Obj(ucaValue)])
  ELSE LET propertyName == parsed[i].propertyName
           p == IF type.kind = "schema"
                THEN FindPropertyBySuffix(type.properties, propertyName, 1) ELSE 0
       IN IF p = 0 THEN Thrown(defs, rnd, "TypeError")
          ELSE LET child == UCABaseConstructor(defs, rnd, now, type.properties[p].type,
                                               AttestableValue(parsed[i].stringValue), "")
               IN IF child.status # "ok" THEN child
                  ELSE FromParsed(child.defs, child.rnd, now, type, parsed, i + 1,
                                  Assign(ucaValue, propertyName, child.inst))

\* the _.map over the input mapping of the nested-object branch
FromEntriesLenient(defs, rnd, now, type, entries, i, ucaValue) ==
  IF i > Len(entries) THEN Returned(defs, rnd, [NoInstance EXCEPT !.value = Obj(ucaValue)])
  ELSE LET p == FindPropertyByName(type.properties, entries[i].k, 1) IN
       IF p = 0 THEN Thrown(defs, rnd, "TypeError")
       ELSE LET propertyDef == type.properties[p]
                child == UCABaseConstructor(defs, rnd, now, propertyDef.type,
                                            entries[i].v, propertyDef.version)
            IN IF child.status # "ok"
               THEN FromEntries(defs, rnd, now, type, entries, i + 1, ucaValue)
               ELSE FromEntries(child.defs, child.rnd, now, type, entries, i + 1,
                                Assign(ucaValue, entries[i].k, child.inst))

FromEntries(defs, rnd, now, type, entries, i, ucaValue) ==
  IF i > Len(entries) THEN Returned(defs, rnd, [NoInstance EXCEPT !.value = Obj(ucaValue)])
  ELSE LET p == FindPropertyByName(type.properties, entries[i].k, 1) IN
       IF p = 0 THEN Thrown(defs, rnd, "TypeError")
       ELSE LET propertyDef == type.properties[p]
                child == UCABaseConstructor(defs, rnd, now, propertyDef.type,
                                            entries[i].v, propertyDef.version)
            IN IF child.status # "ok" THEN child
               ELSE FromEntries(child.defs, child.rnd, now, type, entries, i + 1,
                                Assign(ucaValue, entries[i].k, child.inst))

\* definition.type = resolveType(definition)
StoreResolvedType(defs, di) == [defs EXCEPT ![di].type = resolveType(defs, defs[di])]

UCABaseConstructor(defs, rnd, now, identifier, value, version) ==
  IF identifier \notin validIdentifiers(defs) THEN Thrown(defs, rnd, "UnknownIdentifier")
  ELSE
  LET di == FindDefinition(defs, identifier, version) IN
  IF di = 0 THEN Thrown(defs, rnd, "TypeError")
  ELSE
  LET thisVersion == IF version # "" THEN version ELSE defs[di].version
      type == getTypeName(defs, defs[di])
      defs1 == StoreResolvedType(defs, di)
      definition == defs1[di]
      this == Instance(identifier, thisVersion, type, Undefined, UndefinedText, Null, "")
  IN
  IF isAttestableValue(value) THEN
    LET parsed == parseAttestableValue(value) IN
    IF parsed.thrown THEN Thrown(defs1, rnd, "MalformedCommitment")
    ELSE IF Len(parsed.values) = 1 THEN
      WithId(defs1, rnd, [this EXCEPT !.salt = parsed.values[1].salt,
                                      !.value = Str(parsed.values[1].value)])
    ELSE
      LET children == FromParsed(defs1, rnd, now, definition.type, parsed.values, 1, <<>>) IN
      IF children.status # "ok" THEN children
      ELSE WithId(children.defs, children.rnd, [this EXCEPT !.value = children.inst.value])
  ELSE IF isValueOfType(value, type) THEN
    IF ~isValid(value, type, definition) THEN Thrown(defs1, rnd, "InvalidValue")
    ELSE WithId(defs1, Tail(rnd), [this EXCEPT !.timestamp = Some(now),
                                               !.value = value,
                                               !.salt = Head(rnd)])
  ELSE IF definition.type.properties = <<>> THEN Thrown(defs1, rnd, "InvalidValue")
  ELSE IF ~hasRequireds(value, definition.type.required)
       THEN Thrown(defs1, rnd, "MissingRequiredField")
  ELSE
    LET children == FromEntries(defs1, rnd, now, definition.type, Entries(value), 1, <<>>) IN
    IF children.status # "ok" THEN children
    ELSE WithId(children.defs, children.rnd, [this EXCEPT !.value = children.inst.value])

\* ---------------------------------------------------------------------------
\* Disclosure and flattening
\* ---------------------------------------------------------------------------

\* getAttestableValues: [thrown, values], values a sequence of
\* [identifier, value]
RECURSIVE getAttestableValues(_, _)
RECURSIVE CollectInner(_, _, _, _)
CollectInner(defs, inst, keys, values) ==
  IF keys = <<>> THEN [thrown |-> FALSE, values |-> values]
  ELSE IF inst.value.t # "Object" THEN [thrown |-> TRUE, values |-> <<>>]
  ELSE LET innerValues == getAttestableValues(defs, Lookup(inst.value.m, Head(keys))) IN
       IF innerValues.thrown THEN innerValues
       ELSE CollectInner(defs, inst, Tail(keys), values \o innerValues.values)

\* the test with the credentialItem flag forgotten
IsDisclosableAttestableOnly(def) == def.attestable

\* def.credentialItem || def.attestable
IsDisclosable(def) == def.credentialItem \/ def.attestable

getAttestableValues(defs, inst) ==
  LET di == FindFrom(defs, inst.identifier, inst.version, 1) IN
  IF di = 0 \/ inst.version = "" THEN [thrown |-> TRUE, values |-> <<>>]
  ELSE IF IsDisclosable(defs[di]) THEN
         LET own == <<[identifier |-> inst.identifier, value |-> getAttestableValue(inst).s]>> IN
         IF inst.type = "Object"
         THEN CollectInner(defs, inst, KeysOfValue(inst.value), own)
         ELSE [thrown |-> FALSE, values |-> own]
       ELSE [thrown |-> FALSE, values |-> <<>>]

\* this.credentialItem: the constructor assigns no such field, so the read
\* is undefined
thisCredentialItem(inst) == FALSE

\* _.assign(newParent, properties)
RECURSIVE AssignAll(_, _, _)
AssignAll(newParent, properties, i) ==
  IF i > Len(properties) THEN newParent
  ELSE AssignAll(Assign(newParent, properties[i].k, properties[i].v), properties, i + 1)

\* getPlainValue(propName); propName "" is an omitted argument.  The result
\* is a value; a mapping is Obj(entries)
RECURSIVE getPlainValue(_, _)
RECURSIVE FlattenChildren(_, _, _)
FlattenChildren(inst, keys, newParent) ==
  IF keys = <<>> THEN newParent
  ELSE LET properties == getPlainValue(Lookup(inst.value.m, Head(keys)), Head(keys)) IN
       FlattenChildren(inst, Tail(keys), AssignAll(newParent, Entries(properties), 1))

getPlainValue(inst, propName) ==
  IF inst.type \in {"String", "Number", "Boolean"}
  THEN IF propName # "" THEN Obj(<<[k |-> propName, v |-> inst.value]>>)
       ELSE IF ~thisCredentialItem(inst) THEN inst.value
       ELSE Obj(<<[k |-> inst.identifier, v |-> inst.value]>>)
  ELSE IF inst.value.t # "Object" THEN Obj(<<>>)
  ELSE Obj(FlattenChildren(inst, OrderedKeys(inst), <<>>))

\* ---------------------------------------------------------------------------
\* Inputs
\* ---------------------------------------------------------------------------

\* the salts the random source yields
Salts == {"a1", "b2"}

\* the readings of the clock; no operation looks at the value of a timestamp
Times == {1}

Entry(k, v) == [k |-> k, v |-> v]

Call(identifier, value, version) ==
  [identifier |-> identifier, value |-> value, version |-> version]

\* constructions of leaves from raw values: valid, out of range, of the wrong
\* runtime type, through a reference type, with and without a version
LeafCalls ==
  {Call("ns:Person:age", v, "") : v \in {Num(42), Num(0), Num(-1), Num(200), Str("Ann")}}
  \cup {Call("ns:Person:adult", v, "") : v \in {Bool(TRUE), Bool(FALSE)}}
  \cup {Call("ns:Person:first", v, "") : v \in {Str("Ann"), Str(""), Str("a|b")}}
  \cup {Call("ns:Person:last", Str("Lee"), "1"),
        Call("ns:Person:years", Num(42), ""),
        Call("ns:Person:years", Num(200), "1"),
        Call("ns:Person:age", Num(42), "2"),
        Call("nonexistent:id", Num(42), "")}

\* constructions of composites from mappings
NameValues ==
  {Obj(<<Entry("first", Str("Ann"))>>),
   Obj(<<Entry("first", Str(""))>>),
   Obj(<<Entry("last", Str("Lee"))>>),
   Obj(<<Entry("first", Str("Ann")), Entry("last", Str("Lee"))>>),
   Obj(<<Entry("last", Str("Lee")), Entry("first", Str("Ann"))>>),
   Obj(<<Entry("first", Str("Ann")), Entry("last", Num(0))>>)}

TagValues == {Obj(<<Entry("adult", Bool(TRUE))>>), Obj(<<Entry("adult", Bool(FALSE))>>), Obj(<<>>)}

ProfileValues ==
  {Obj(<<Entry("age", Num(42))>>),
   Obj(<<Entry("age", Num(0))>>),
   Obj(<<Entry("name", Obj(<<Entry("first", Str("Ann"))>>)), Entry("age", Num(42))>>),
   Obj(<<Entry("age", Num(42)), Entry("tag", Obj(<<Entry("adult", Bool(TRUE))>>))>>),
   Obj(<<Entry("tag", Obj(<<Entry("adult", Bool(TRUE))>>)), Entry("name", Obj(<<>>))>>),
   Obj(<<Entry("age", Num(42)), Entry("nick", Str("Ann"))>>),
   Obj(<<Entry("age", Num(42)), Entry("alias", Str("Ann"))>>),
   Obj(<<Entry("age", Num(42)), Entry("name", Obj(<<Entry("last", Str("Lee"))>>))>>),
   Obj(<<Entry("age", Num(42)),
         Entry("name", Obj(<<Entry("first", Str("Ann")), Entry("last", Num(0))>>))>>)}

NoteValues == {Obj(<<Entry("last", Str("Lee"))>>), Obj(<<>>)}

CompositeCalls ==
  {Call("ns:Person:name", v, "") : v \in NameValues}
  \cup {Call("ns:Person:tag", v, "") : v \in TagValues}
  \cup {Call("ns:Person:profile", v, "") : v \in ProfileValues}
  \cup {Call("ns:Person:note", v, "") : v \in NoteValues}

\* constructions from a primitive of a runtime type the definition does not
\* resolve to
MismatchCalls ==
  {Call("ns:Person:name", v, "") : v \in {Num(5), Str("Ann")}}
  \cup {Call("ns:Person:tag", Bool(TRUE), ""),
        Call("ns:Person:note", Num(5), ""),
        Call("ns:Person:note", Bool(FALSE), ""),
        Call("ns:Person:first", Num(0), ""),
        Call("ns:Person:adult", Str("true"), "")}

\* constructions from commitment texts that no serialization produced
TextCalls ==
  {Call("ns:Person:age", AttestableValue(t), "") :
     t \in {"garbage", "urn:age:a1:00000042", "urn:age:a1:00000042|garbage", "urn:age|x|y"}}
  \cup {Call("ns:Person:name", AttestableValue(t), "") :
     t \in {"garbage", "urn:first:a1:Ann|urn:last:b2:Lee|",
            "garbage|urn:first:a1:Ann|urn:last:b2:Lee",
            "urn:first:a1:Ann||urn:last:b2:Lee|"}}

Calls == LeafCalls \cup CompositeCalls \cup MismatchCalls \cup TextCalls

\* number of primitive leaves of a raw value: the salts a construction from
\* it can draw
RECURSIVE LeafCount(_)
RECURSIVE LeafCountFrom(_, _)
LeafCountFrom(m, i) ==
  IF i > Len(m) THEN 0 ELSE LeafCount(m[i].v) + LeafCountFrom(m, i + 1)

LeafCount(value) ==
  CASE value.t = "Object" -> LeafCountFrom(value.m, 1)
    [] value.t = "AttestableValue" -> 0
    [] OTHER -> 1

RandomSources(value) == [1..LeafCount(value) -> Salts]

\* ---------------------------------------------------------------------------
\* State machine
\* ---------------------------------------------------------------------------

\* a: the latest construction (its arguments and outcome)
\* prev: the construction before it
\* b: the reconstruction of a from its own serialization
\* out: the latest result of getPlainValue / getAttestableValues on a
NoCall == [identifier |-> "", value |-> Undefined, version |-> "",
           status |-> "none", inst |-> NoInstance]

NoRebuild == [text |-> "", status |-> "none", inst |-> NoInstance]

NoOut == [op |-> "none", propName |-> "", thrown |-> FALSE, plain |-> Undefined,
          values |-> <<>>]

Init ==
  /\ definitions = Registry
  /\ a = NoCall
  /\ prev = NoCall
  /\ b = NoRebuild
  /\ out = NoOut

Outcome(call, r) ==
  [identifier |-> call.identifier, value |-> call.value, version |-> call.version,
   status |-> r.status, inst |-> r.inst]

\* new UCA(identifier, value, version)
Construct(call) ==
  \E rnd \in RandomSources(call.value), now \in Times :
    LET r == UCABaseConstructor(definitions, rnd, now, call.identifier, call.value,
                                call.version) IN
    /\ definitions' = r.defs
    /\ a' = Outcome(call, r)
    /\ b' = NoRebuild
    /\ out' = NoOut
    /\ UNCHANGED prev

\* new UCA(a.identifier, { attestableValue: a.getAttestableValue() }, a.version)
Reconstruct ==
  /\ a.status = "ok"
  /\ \E now \in Times :
       LET text == getAttestableValue(a.inst).s
           r == UCABaseConstructor(definitions, <<>>, now, a.inst.identifier,
                                   AttestableValue(text), a.inst.version)
       IN /\ definitions' = r.defs
          /\ b' = [text |-> text, status |-> r.status, inst |-> r.inst]
  /\ UNCHANGED <<a, prev, out>>

\* a.getPlainValue(propName)
GetPlainValue(propName) ==
  /\ a.status = "ok"
  /\ out' = [NoOut EXCEPT !.op = "getPlainValue", !.propName = propName,
                          !.plain = getPlainValue(a.inst, propName)]
  /\ UNCHANGED <<definitions, a, prev, b>>

\* a.getAttestableValues()
GetAttestableValues ==
  /\ a.status = "ok"
  /\ out' = [NoOut EXCEPT !.op = "getAttestableValues",
                          !.thrown = getAttestableValues(definitions, a.inst).thrown,
                          !.values = getAttestableValues(definitions, a.inst).values]
  /\ UNCHANGED <<definitions, a, prev, b>>

Next ==
  \/ \E call \in Calls : Construct(call)
  \/ Reconstruct
  \/ \E propName \in {"", "hint"} : GetPlainValue(propName)
  \/ GetAttestableValues

Spec == Init /\ [][Next]_vars

\* ---------------------------------------------------------------------------
\* Two constructions in a row (insertion order of the input mapping)
\* ---------------------------------------------------------------------------

OrderCalls ==
  {Call("ns:Person:name", v, "") : v \in NameValues}
  \cup {Call("ns:Person:profile", v, "") :
          v \in {Obj(<<Entry("age", Num(42)), Entry("tag", Obj(<<Entry("adult", Bool(TRUE))>>))>>),
                 Obj(<<Entry("tag", Obj(<<Entry("adult", Bool(TRUE))>>)), Entry("age", Num(42))>>)}}

\* new UCA(identifier, value, version) while the caller still holds the
\* instance of the construction before
ConstructAgain(call) ==
  \E rnd \in RandomSources(call.value), now \in Times :
    LET r == UCABaseConstructor(definitions, rnd, now, call.identifier, call.value,
                                call.version) IN
    /\ definitions' = r.defs
    /\ prev' = a
    /\ a' = Outcome(call, r)
    /\ UNCHANGED <<b, out>>

NextOrder == \E call \in OrderCalls : ConstructAgain(call)

SpecOrder == Init /\ [][NextOrder]_vars

\* ---------------------------------------------------------------------------
\* Constructions of leaves under every combination of constraints
\* ---------------------------------------------------------------------------

\* largest value of a declared bound (minimum, maximum, minimumLength,
\* maximumLength); raw numbers and string lengths range one beyond it
MaxBound == 1

OptionalBounds == {Absent} \cup {Some(n) : n \in 0..MaxBound}

OptionalFlags == {Absent, Some(TRUE), Some(FALSE)}

NumberConstraints ==
  {[NoConstraints EXCEPT !.minimum = lo, !.maximum = hi,
                         !.exclusiveMinimum = xlo, !.exclusiveMaximum = xhi] :
     lo \in OptionalBounds, hi \in OptionalBounds, xlo \in OptionalFlags, xhi \in OptionalFlags}

StringConstraints ==
  {[NoConstraints EXCEPT !.minimumLength = lo, !.maximumLength = hi] :
     lo \in OptionalBounds, hi \in OptionalBounds}

RECURSIVE Repeat(_, _)
Repeat(c, n) == IF n = 0 THEN "" ELSE c \o Repeat(c, n - 1)

ValidatorCalls ==
  {Call("ns:Person:age", Num(n), "") : n \in (-1)..(MaxBound + 1)}
  \cup {Call("ns:Person:first", Str(Repeat("x", n)), "") : n \in 0..(MaxBound + 1)}

InitValid ==
  /\ definitions \in {RegistryWith(c, NoConstraints) : c \in NumberConstraints}
                     \cup {RegistryWith(AgeConstraints, c) : c \in StringConstraints}
  /\ a = NoCall
  /\ prev = NoCall
  /\ b = NoRebuild
  /\ out = NoOut

NextValid == \E call \in ValidatorCalls : Construct(call)

SpecValid == InitValid /\ [][NextValid]_vars

\* ---------------------------------------------------------------------------
\* Properties
\* ---------------------------------------------------------------------------

PrimitiveTypes == {"String", "Number", "Boolean"}

\* the definition construct(identifier, _, version) resolves, as first loaded
DefinitionOf(identifier, version) == Registry[FindDefinition(Registry, identifier, version)]

\* a is a successful construction from a raw value and b its reconstruction
RoundTripDone ==
  /\ a.status = "ok"
  /\ a.value.t \in {"String", "Number", "Boolean", "Object"}
  /\ b.status # "none"

\* C1: leaf commitment round-trip.  For a definition resolving to String,
\* Number or Boolean and a successful construction A from a raw value, the
\* reconstruction B from canonicalAttestableValue(A) succeeds with
\* B.value = A.value (same value, same runtime type), B.salt = A.salt, the
\* same commitment, the same id, B.timestamp unset and A.timestamp set.
C1_LeafRoundTrip ==
  (RoundTripDone /\ a.inst.type \in PrimitiveTypes) =>
    /\ b.status = "ok"
    /\ b.inst.value = a.inst.value
    /\ b.inst.salt = a.inst.salt
    /\ getAttestableValue(b.inst) = getAttestableValue(a.inst)
    /\ b.inst.id = a.inst.id
    /\ b.inst.timestamp = Null
    /\ a.inst.timestamp # Null

ChildOf(inst, key) == Lookup(inst.value.m, key)

KeySet(inst) == {inst.value.m[i].k : i \in 1..Len(inst.value.m)}

\* C2: composite commitment round-trip.  For an Object-typed definition and a
\* successful construction A from a mapping with at least one child, the
\* reconstruction B from canonicalAttestableValue(A) succeeds, B.value has
\* the keys of A.value, every child of B is an instance with the identifier,
\* salt and commitment of the corresponding child of A, and B has the
\* commitment and the id of A.
C2_CompositeRoundTrip ==
  (RoundTripDone /\ a.inst.type = "Object" /\ Len(a.inst.value.m) >= 1) =>
    /\ b.status = "ok"
    /\ b.inst.value.t = "Object"
    /\ KeySet(b.inst) = KeySet(a.inst)
    /\ \A k \in KeySet(a.inst) :
         /\ ChildOf(b.inst, k).identifier = ChildOf(a.inst, k).identifier
         /\ ChildOf(b.inst, k).salt = ChildOf(a.inst, k).salt
         /\ getAttestableValue(ChildOf(b.inst, k)) = getAttestableValue(ChildOf(a.inst, k))
    /\ getAttestableValue(b.inst) = getAttestableValue(a.inst)
    /\ b.inst.id = a.inst.id

\* C3: the registry is never modified by construct.  After any sequence of
\* construct calls every definition record has the field values, `type`
\* included, it had before the first call.
C3_RegistryUnmodified == definitions = Registry

\* a segment of the wire grammar: "urn:" propertyName ":" salt ":" value with
\* propertyName and salt non-empty runs of \w
SegmentInGrammar(segment) ==
  /\ Len(segment) >= 4
  /\ SubSeq(segment, 1, 4) = "urn:"
  /\ LET p == WordRunEnd(segment, 5)
         q == WordRunEnd(segment, p + 1)
     IN /\ p > 5
        /\ CharAt(segment, p) = ":"
        /\ q > p + 1
        /\ CharAt(segment, q) = ":"

HasForeignSegment(text) ==
  LET segments == Split(text, "|") IN
  \E i \in 1..Len(segments) : segments[i] # "" /\ ~SegmentInGrammar(segments[i])

\* C4: malformed commitments are rejected.  A construction from a commitment
\* text with a non-empty '|'-separated segment outside the segment grammar
\* fails with MalformedCommitment and produces no instance.
C4_MalformedRejected ==
  (a.status # "none" /\ isAttestableValue(a.value) /\ HasForeignSegment(a.value.s)) =>
    a.status = "MalformedCommitment"

AllKeysDeclared(value, schema) ==
  \A i \in 1..Len(value.m) : FindPropertyByName(schema.properties, value.m[i].k, 1) # 0

AllValuesPrimitive(value) ==
  \A i \in 1..Len(value.m) : value.m[i].v.t \in PrimitiveTypes

\* C5: required-field enforcement.  For an Object-typed definition and an
\* input mapping whose keys are all declared properties, construct fails with
\* MissingRequiredField if a required name is not a key of the mapping, and
\* does not fail with MissingRequiredField when every required name is a key,
\* whatever value (0, false and the empty string included) is under it.
C5_RequiredFields ==
  (/\ a.status # "none"
   /\ a.value.t = "Object"
   /\ a.identifier \in validIdentifiers(Registry)
   /\ getTypeName(Registry, DefinitionOf(a.identifier, "")) = "Object"
   /\ AllKeysDeclared(a.value, resolveType(Registry, DefinitionOf(a.identifier, "")))
   /\ AllValuesPrimitive(a.value)) =>
    LET required == resolveType(Registry, DefinitionOf(a.identifier, "")).required
        allPresent == \A i \in 1..Len(required) : HasKey(a.value.m, required[i])
    IN (a.status = "MissingRequiredField") <=> ~allPresent

\* the (property name, child commitment) pairs of a composite
ChildCommitments(inst) ==
  {<<inst.value.m[i].k, getAttestableValue(inst.value.m[i].v).s>> : i \in 1..Len(inst.value.m)}

\* the pairs of a set, least property name first, each followed by '|'
RECURSIVE ConcatAscending(_)
ConcatAscending(pairs) ==
  IF pairs = {} THEN ""
  ELSE LET least == CHOOSE p \in pairs : \A q \in pairs : q[1] = p[1] \/ StrLess(p[1], q[1])
       IN least[2] \o "|" \o ConcatAscending(pairs \ {least})

IsComposite(call) ==
  call.status = "ok" /\ call.inst.type = "Object" /\ call.inst.value.t = "Object"

\* C6: canonical ordering determinism.  The commitment of a composite depends
\* only on the set of (property name, child commitment) pairs, not on the
\* insertion order of the input mapping: two composites with the same pairs
\* serialize to the same string, the children in ascending property-name
\* order, each followed by '|'.
C6_OrderIndependent ==
  (IsComposite(a) /\ IsComposite(prev)) =>
    /\ getAttestableValue(a.inst).s = ConcatAscending(ChildCommitments(a.inst))
    /\ (ChildCommitments(a.inst) = ChildCommitments(prev.inst) =>
          getAttestableValue(a.inst).s = getAttestableValue(prev.inst).s)

\* two composites with the same children, inserted in different orders
C6_Witness ==
  /\ IsComposite(a) /\ IsComposite(prev)
  /\ Len(a.inst.value.m) >= 2
  /\ ChildCommitments(a.inst) = ChildCommitments(prev.inst)
  /\ Keys(a.inst.value.m) # Keys(prev.inst.value.m)
  /\ Keys(a.inst.value.m) # SortBy(Keys(a.inst.value.m))

\* the definition a was constructed under
CurrentDefinition == definitions[FindDefinition(definitions, a.identifier, "")]

\* the numeric constraint as specified
WithinNumericBounds(v, def) ==
  /\ \/ def.minimum = Absent
     \/ (IF def.exclusiveMinimum = Some(TRUE) THEN v > def.minimum[1] ELSE v >= def.minimum[1])
  /\ \/ def.maximum = Absent
     \/ (IF def.exclusiveMaximum = Some(TRUE) THEN v < def.maximum[1] ELSE v <= def.maximum[1])

NumberChecked == a.status # "none" /\ a.identifier = "ns:Person:age" /\ a.value.t = "Number"

\* C7: numeric constraint check.  A Number value v is accepted exactly when
\* (minimum absent, or v > minimum if exclusiveMinimum is true, or
\* v >= minimum otherwise) and (maximum absent, or v < maximum if
\* exclusiveMaximum is true, or v <= maximum otherwise); construct fails with
\* InvalidValue whenever the check rejects.
C7_NumericConstraints ==
  NumberChecked =>
    /\ isValid(a.value, "Number", CurrentDefinition) <=> WithinNumericBounds(a.value.n, CurrentDefinition)
    /\ (a.status = "ok") <=> WithinNumericBounds(a.value.n, CurrentDefinition)
    /\ ~WithinNumericBounds(a.value.n, CurrentDefinition) => a.status = "InvalidValue"

\* a value equal to an exclusive minimum, rejected
C7_Witness ==
  /\ NumberChecked
  /\ CurrentDefinition.minimum = Some(a.value.n)
  /\ CurrentDefinition.exclusiveMinimum = Some(TRUE)
  /\ a.status = "InvalidValue"

\* the string length constraint as specified
WithinLengthBounds(s, def) ==
  /\ (def.minimumLength = Absent \/ Len(s) >= def.minimumLength[1])
  /\ (def.maximumLength = Absent \/ Len(s) <= def.maximumLength[1])

StringChecked == a.status # "none" /\ a.identifier = "ns:Person:first" /\ a.value.t = "String"

\* C8: string length constraint check.  A String value s (no pattern) is
\* accepted exactly when (minimumLength absent or length(s) >= minimumLength)
\* and (maximumLength absent or length(s) <= maximumLength).
C8_LengthConstraints ==
  StringChecked =>
    (isValid(a.value, "String", CurrentDefinition) <=> WithinLengthBounds(a.value.s, CurrentDefinition))

PlainValueTaken == out.op = "getPlainValue" /\ a.inst.type \in PrimitiveTypes

\* C9: plainValue on a leaf.  With a property-name hint the result is the
\* one-entry mapping {hint: value}; with no hint and a credential-item
\* definition it is {identifier: value}; with no hint and a definition that
\* is no credential item it is the bare value.
C9_PlainValueLeaf ==
  PlainValueTaken =>
    LET def == DefinitionOf(a.inst.identifier, a.inst.version) IN
    out.plain = (IF out.propName # "" THEN Obj(<<Entry(out.propName, a.inst.value)>>)
                 ELSE IF def.credentialItem THEN Obj(<<Entry(a.inst.identifier, a.inst.value)>>)
                 ELSE a.inst.value)

\* the node of an instance tree at a path of property names
RECURSIVE NodeAt(_, _)
NodeAt(inst, path) ==
  IF path = <<>> THEN inst ELSE NodeAt(ChildOf(inst, Head(path)), Tail(path))

\* the paths of all nodes of an instance tree
RECURSIVE PathsOf(_)
PathsOf(inst) ==
  {<<>>} \cup
  (IF inst.value.t = "Object"
   THEN UNION {{<<k>> \o p : p \in PathsOf(ChildOf(inst, k))} : k \in KeySet(inst)}
   ELSE {})

Flagged(inst) ==
  LET def == DefinitionOf(inst.identifier, inst.version) IN def.attestable \/ def.credentialItem

\* the node at the path and every ancestor of it up to the root is flagged
FlaggedDownTo(inst, path) ==
  \A n \in 0..Len(path) : Flagged(NodeAt(inst, SubSeq(path, 1, n)))

DisclosedPaths(inst) == {p \in PathsOf(inst) : FlaggedDownTo(inst, p)}

DisclosureEntry(node) ==
  [identifier |-> node.identifier, value |-> getAttestableValue(node).s]

ValuesCollected == out.op = "getAttestableValues" /\ ~out.thrown

FitsNoMode ==
  /\ a.status # "none"
  /\ a.identifier \in validIdentifiers(Registry)
  /\ FindDefinition(Registry, a.identifier, a.version) # 0
  /\ a.value.t \in PrimitiveTypes
  /\ a.value.t # getTypeName(Registry, DefinitionOf(a.identifier, a.version))

\* C11: a value that fits no construction mode is rejected with InvalidValue.
\* For every definition (primitive-typed or Object-typed, with or without
\* required properties) and every input that is not a commitment, not a
\* primitive of the resolved runtime type and not a mapping, construct fails
\* with InvalidValue and returns no instance.
C11_NoModeRejected ==
  FitsNoMode => (a.status = "InvalidValue" /\ a.inst = NoInstance)

FailureKinds == {"UnknownIdentifier", "InvalidValue", "MissingRequiredField"}

\* the outcome of constructing, on its own, the child under entry of a mapping
\* given to a definition of the composite type schema
ChildOutcome(schema, entry) ==
  LET p == FindPropertyByName(schema.properties, entry.k, 1)
      salts == [i \in 1..LeafCount(entry.v) |-> "a1"]
  IN IF p = 0 THEN "undeclared"
     ELSE UCABaseConstructor(definitions, salts, 1, schema.properties[p].type,
                             entry.v, schema.properties[p].version).status

\* a is a construction from a mapping given to a composite definition
MappingGiven ==
  /\ a.status # "none"
  /\ a.value.t = "Object"
  /\ a.identifier \in validIdentifiers(Registry)
  /\ getTypeName(Registry, DefinitionOf(a.identifier, "")) = "Object"

\* the construction, on their own, of the children of a that fail
FailedChildren ==
  LET schema == resolveType(Registry, DefinitionOf(a.identifier, "")) IN
  {ChildOutcome(schema, a.value.m[i]) : i \in 1..Len(a.value.m)} \cap FailureKinds

\* C12: construction is all-or-nothing.  A root identifier that is not
\* registered fails with UnknownIdentifier; a construction that fails returns
\* no instance; and when the construction of a descendant of a mapping fails
\* (unknown identifier, invalid value or missing required field, at any
\* depth), the root construction fails and returns no instance, with the
\* error of a failing descendant when the mapping itself is admissible (all
\* keys declared, all required names present).
C12_AllOrNothing ==
  /\ (a.status # "none" /\ a.identifier \notin validIdentifiers(Registry))
       => a.status = "UnknownIdentifier"
  /\ (a.status # "ok") => a.inst = NoInstance
  /\ (MappingGiven /\ FailedChildren # {}) =>
       LET schema == resolveType(Registry, DefinitionOf(a.identifier, "")) IN
       /\ a.status # "ok"
       /\ a.inst = NoInstance
       /\ (AllKeysDeclared(a.value, schema) /\ hasRequireds(a.value, schema.required))
            => a.status \in FailedChildren

\* an admissible mapping whose child is itself a mapping with a failing child:
\* the failure at depth two has failed the root
C12_Witness ==
  /\ MappingGiven
  /\ LET schema == resolveType(Registry, DefinitionOf(a.identifier, "")) IN
     /\ AllKeysDeclared(a.value, schema)
     /\ hasRequireds(a.value, schema.required)
     /\ \E i \in 1..Len(a.value.m) :
          LET p == FindPropertyByName(schema.properties, a.value.m[i].k, 1)
              child == a.value.m[i].v
              childDef == DefinitionOf(schema.properties[p].type, schema.properties[p].version)
          IN /\ child.t = "Object"
             /\ \E j \in 1..Len(child.m) :
                  ChildOutcome(resolveType(Registry, childDef), child.m[j]) \in FailureKinds
  /\ a.status \in FailureKinds
  /\ a.inst = NoInstance

\* the segments of a commitment text, the single trailing empty one left out
SegmentsOf(text) ==
  LET segments == Split(text, "|")
      n == Len(segments)
  IN IF n > 1 /\ segments[n] = "" THEN SubSeq(segments, 1, n - 1) ELSE segments

\* C13: the serializer's output is within the wire grammar.  For every
\* instance successfully constructed from a raw value (a composite with a
\* composite child included), canonicalAttestableValue is
\* segment ('|' segment)* ['|'] with no empty segment other than the single
\* trailing one, and parseCommitment on it does not fail and returns exactly
\* one component per leaf.
C13_SerializerInGrammar ==
  (a.status = "ok" /\ a.value.t \in PrimitiveTypes \cup {"Object"}) =>
    LET r == getAttestableValue(a.inst)
        segments == SegmentsOf(r.s)
        parsed == parseAttestableValue(AttestableValue(r.s))
    IN /\ ~r.thrown
       /\ \A i \in 1..Len(segments) : SegmentInGrammar(segments[i])
       /\ ~parsed.thrown
       /\ Len(parsed.values) = LeafCount(a.value)

====
